---------------------------- MODULE Spec2Model ----------------------------
(***************************************************************************)
(* Model of packages/components/src/alignment-matrix-control/utils.js.     *)
(*                                                                         *)
(* JavaScript values are tagged records ([t |-> "string", s |-> ...]).     *)
(* A JavaScript string is a sequence of one-character strings, so that     *)
(* split, toLowerCase, replace, sort and join are computed character by    *)
(* character as the engine computes them.  JavaScript arrays are 0-based;  *)
(* the sequences below are 1-based and every index is shifted where an     *)
(* array is read.  The result of getRTL() is passed to the operators as    *)
(* their last parameter `rtl`; the list built at line 30 is passed as `A`. *)
(***************************************************************************)
EXTENDS Integers, Sequences, FiniteSets, TLC

VARIABLES isRTL, loadRTL, ALIGNMENTS, op, args, ret, src

vars == <<isRTL, loadRTL, ALIGNMENTS, op, args, ret, src>>

(***************************************************************************)
(* JavaScript values                                                       *)
(***************************************************************************)
Undef == [t |-> "undefined"]

Null == [t |-> "null"]

Str(s) == [t |-> "string", s |-> s]

Num(n) == [t |-> "number", n |-> n]

Arr(a) == [t |-> "array", a |-> a]

\* the outcome of a call that raises (TypeError)
Throw == [t |-> "TypeError"]

\* cell literal { values, index, id } of mapAlignmentToGrid
Cell(values, index, id) ==
    [t |-> "object", values |-> values, index |-> index, id |-> id]

Bool(b) == [t |-> "boolean", b |-> b]

IsThrow(x) == x.t = "TypeError"

\* a === b on primitive values
StrictEq(a, b) ==
    a.t = b.t /\ a = b

(***************************************************************************)
(* Strings: UTF-16 code units of the characters the model uses             *)
(***************************************************************************)
LowerCaseLetters ==
    <<"a","b","c","d","e","f","g","h","i","j","k","l","m",
      "n","o","p","q","r","s","t","u","v","w","x","y","z">>

UpperCaseLetters ==
    <<"A","B","C","D","E","F","G","H","I","J","K","L","M",
      "N","O","P","Q","R","S","T","U","V","W","X","Y","Z">>

Digits == <<"0","1","2","3","4","5","6","7","8","9">>

Range(seq) == {seq[i] : i \in DOMAIN seq}

PosIn(c, seq) == CHOOSE i \in DOMAIN seq : seq[i] = c

Characters ==
    {" ", "$", "-"} \cup Range(Digits) \cup Range(UpperCaseLetters)
    \cup Range(LowerCaseLetters)

\* code unit of a character; the default order of sort compares by it
CodeUnit ==
    [c \in Characters |->
        IF c = " " THEN 32
        ELSE IF c = "$" THEN 36
        ELSE IF c = "-" THEN 45
        ELSE IF c \in Range(Digits) THEN 47 + PosIn(c, Digits)
        ELSE IF c \in Range(UpperCaseLetters) THEN 64 + PosIn(c, UpperCaseLetters)
        ELSE 96 + PosIn(c, LowerCaseLetters)]

LowerCaseOf ==
    [c \in Characters |->
        IF c \in Range(UpperCaseLetters)
        THEN LowerCaseLetters[PosIn(c, UpperCaseLetters)]
        ELSE c]

\* String.prototype.toLowerCase
toLowerCase(s) == [i \in DOMAIN s |-> LowerCaseOf[s[i]]]

Least(S) == CHOOSE i \in S : \A j \in S : i <= j

\* positions (1-based) at which pattern occurs in s
Occurrences(s, pattern) ==
    {i \in 1..(Len(s) - Len(pattern) + 1) :
        SubSeq(s, i, i + Len(pattern) - 1) = pattern}

\* s with the n characters at the least position of hits replaced by
\* replacement; s itself when the pattern does not occur
Splice(s, hits, n, replacement) ==
    IF hits = {} THEN s
    ELSE SubSeq(s, 1, Least(hits) - 1) \o replacement
         \o SubSeq(s, Least(hits) + n, Len(s))

\* String.prototype.replace with a string pattern: only the first
\* occurrence is replaced.  None of the replacement strings of utils.js
\* ('center', '$TMP', 'left', 'right') holds a special $-pattern.
replace(s, pattern, replacement) ==
    Splice(s, Occurrences(s, pattern), Len(pattern), replacement)

\* String.prototype.split( / |-/g ): cut at every space and every hyphen;
\* adjacent separators give empty strings and '' gives [ '' ].
RECURSIVE SplitAt(_, _)
SplitAt(s, seps) ==
    IF seps = {} THEN <<Str(s)>>
    ELSE <<Str(SubSeq(s, 1, Least(seps) - 1))>>
         \o SplitAt(SubSeq(s, Least(seps) + 1, Len(s)),
                    {i - Least(seps) : i \in seps \ {Least(seps)}})

split(s) == SplitAt(s, {i \in DOMAIN s : s[i] \in {" ", "-"}})

\* a < b by code units, given the positions at which a and b differ
LessAt(a, b, diff) ==
    IF diff = {} THEN Len(a) < Len(b)
    ELSE CodeUnit[a[Least(diff)]] < CodeUnit[b[Least(diff)]]

\* a < b in the order Array.prototype.sort uses by default
StrLess(a, b) ==
    LessAt(a, b, {i \in DOMAIN a \cap DOMAIN b : a[i] # b[i]})

RECURSIVE Insert(_, _)
Insert(x, sorted) ==
    IF sorted = <<>> THEN <<x>>
    ELSE IF StrLess(x, Head(sorted)) THEN <<x>> \o sorted
    ELSE <<Head(sorted)>> \o Insert(x, Tail(sorted))

\* Array.prototype.sort() without comparator, on a list of strings
RECURSIVE sort(_)
sort(a) == IF a = <<>> THEN <<>> ELSE Insert(Head(a), sort(Tail(a)))

\* Array.prototype.join on a list of strings
RECURSIVE join(_, _)
join(a, sep) ==
    IF a = <<>> THEN <<>>
    ELSE IF Len(a) = 1 THEN a[1]
    ELSE a[1] \o sep \o join(Tail(a), sep)

\* decimal digits of a natural number
RECURSIVE DecimalDigits(_)
DecimalDigits(n) ==
    IF n < 10 THEN <<Digits[n + 1]>>
    ELSE DecimalDigits(n \div 10) \o <<Digits[(n % 10) + 1]>>

\* string conversion of an interpolated value in a template literal
TemplateString(x) ==
    IF x.t = "string" THEN x.s
    ELSE IF x.t = "number" THEN DecimalDigits(x.n)
    ELSE IF x.t = "null" THEN <<"n","u","l","l">>
    ELSE <<"u","n","d","e","f","i","n","e","d">>

\* a parameter with a default value: the default replaces undefined only
DefaultTo(x, default) == IF x.t = "undefined" THEN default ELSE x

(***************************************************************************)
(* Constants of utils.js (lines 11-38)                                     *)
(***************************************************************************)
up == <<"u","p">>

down == <<"d","o","w","n">>

left == <<"l","e","f","t">>

right == <<"r","i","g","h","t">>

top == <<"t","o","p">>

center == <<"c","e","n","t","e","r">>

bottom == <<"b","o","t","t","o","m">>

middle == <<"m","i","d","d","l","e">>

token == <<"$","T","M","P">>

DIRECTION == [UP |-> Str(up), DOWN |-> Str(down),
              LEFT |-> Str(left), RIGHT |-> Str(right)]

BASE_ALIGNMENTS ==
    << Arr(<<Str(top), Str(left)>>),
       Arr(<<Str(top), Str(center)>>),
       Arr(<<Str(top), Str(right)>>),
       Arr(<<Str(center), Str(left)>>),
       Arr(<<Str(center), Str(center)>>),
       Arr(<<Str(center), Str(right)>>),
       Arr(<<Str(bottom), Str(left)>>),
       Arr(<<Str(bottom), Str(center)>>),
       Arr(<<Str(bottom), Str(right)>>) >>

ALIGNMENT_MATRIX == << <<0, 1, 2>>, <<3, 4, 5>>, <<6, 7, 8>> >>

ALIGNMENT_GRID_SIZE == 3

(***************************************************************************)
(* transformAlignmentRTL (lines 79-93); value is a string's characters     *)
(***************************************************************************)
\* mutant: the swap without the temporary placeholder
transformAlignmentRTL_direct(value, rtl) ==
    IF ~rtl THEN value
    ELSE replace(replace(value, left, right), right, left)

transformAlignmentRTL(value, rtl) ==
    IF ~rtl THEN value
    ELSE replace(replace(replace(value, left, token), right, left),
                 token, right)

(***************************************************************************)
(* transformAlignment (lines 47-71)                                        *)
(***************************************************************************)
\* lines 47-56: the list the three maps run on
TokensOf(alignments) ==
    IF alignments.t = "string" THEN split(alignments.s)
    ELSE IF alignments.t = "array" THEN alignments.a
    ELSE <<>>

\* lines 59-63 on one element v (a string's characters)
MapToken(v, rtl) ==
    transformAlignmentRTL(replace(toLowerCase(v), middle, center), rtl)

\* lines 66-68
PushCenter(value) ==
    IF Len(value) = 1 /\ value[1] = center THEN Append(value, center)
    ELSE value

Strings(value) == [i \in DOMAIN value |-> Str(value[i])]

\* lines 58-70; an element without toLowerCase raises a TypeError
TransformTokens(value, rtl) ==
    IF \E i \in DOMAIN value : value[i].t # "string" THEN Throw
    ELSE Arr(Strings(sort(PushCenter(
             [i \in DOMAIN value |-> MapToken(value[i].s, rtl)]))))

transformAlignment(alignments, rtl) ==
    TransformTokens(TokensOf(DefaultTo(alignments, Arr(<<>>))), rtl)

\* mutant: the canonical list built without the RTL flip
LoadALIGNMENTS_noFlip(rtl) ==
    [i \in DOMAIN BASE_ALIGNMENTS |-> transformAlignment(BASE_ALIGNMENTS[i], FALSE)]

\* line 30: BASE_ALIGNMENTS.map( transformAlignment ), evaluated once when
\* the module is loaded, under the flag getRTL() returns at that time
LoadALIGNMENTS(rtl) ==
    [i \in DOMAIN BASE_ALIGNMENTS |-> transformAlignment(BASE_ALIGNMENTS[i], rtl)]

\* line 31: ALIGNMENTS.map( ( a ) => a.join( ' ' ) )
ALIGNMENT_VALUES(A) ==
    [i \in DOMAIN A |-> Str(join([k \in DOMAIN A[i].a |-> A[i].a[k].s], <<" ">>))]

\* positions (1-based) of the elements of A for which lodash isEqual with
\* values holds (deep equality of arrays of strings)
EqualTo(A, values) == {i \in DOMAIN A : A[i] = values}

\* Array.prototype.find: the first such element, or undefined
find(A, hits) == IF hits = {} THEN Undef ELSE A[Least(hits)]

(***************************************************************************)
(* getAlignmentValues (lines 115-125)                                      *)
(***************************************************************************)
\* mutant: the length guard written >= 2
MatchOf_guardTwo(values, A) ==
    IF IsThrow(values) THEN Throw
    ELSE IF Len(values.a) >= 2 THEN Undef
    ELSE find(A, EqualTo(A, values))

MatchOf(values, A) ==
    IF IsThrow(values) THEN Throw
    ELSE IF Len(values.a) > 2 THEN Undef
    ELSE find(A, EqualTo(A, values))

getAlignmentValues(alignment, A, rtl) ==
    MatchOf(transformAlignment(DefaultTo(alignment, Str(center)), rtl), A)

(***************************************************************************)
(* isAlignmentValid (lines 102-106)                                        *)
(***************************************************************************)
\* !! match: an array is truthy, undefined is falsy
Truthy(match) == IF IsThrow(match) THEN Throw ELSE Bool(match.t = "array")

isAlignmentValid(alignment, A, rtl) ==
    Truthy(getAlignmentValues(DefaultTo(alignment, Str(center)), A, rtl))

(***************************************************************************)
(* getAlignmentIndex (lines 134-139).  indexOf compares by identity: item  *)
(* is the element of A that find returned, the first one equal to values,  *)
(* so its position is the first position holding an equal value.           *)
(***************************************************************************)
indexOf(A, item) ==
    IF item.t # "array" \/ EqualTo(A, item) = {} THEN -1
    ELSE Least(EqualTo(A, item)) - 1

IndexOrUndefined(index) == IF index > -1 THEN Num(index) ELSE Undef

ItemIndex(A, item) ==
    IF IsThrow(item) THEN Throw ELSE IndexOrUndefined(indexOf(A, item))

getAlignmentIndex(alignment, A, rtl) ==
    ItemIndex(A, getAlignmentValues(DefaultTo(alignment, Str(center)), A, rtl))

(***************************************************************************)
(* getAlignmentValueFromIndex (lines 148-152), index a number or omitted   *)
(***************************************************************************)
\* ALIGNMENTS[ index ] || []
ElementOrEmpty(A, i) == IF i + 1 \in DOMAIN A THEN A[i + 1].a ELSE <<>>

JoinStrings(align) == Str(join([k \in DOMAIN align |-> align[k].s], <<" ">>))

getAlignmentValueFromIndex(index, A) ==
    JoinStrings(ElementOrEmpty(A, DefaultTo(index, Num(0)).n))

(***************************************************************************)
(* getCoordsFromIndex (lines 161-174)                                      *)
(***************************************************************************)
\* the ( x, y ) the two nested forEach visit, 1-based
MatrixCells ==
    UNION {{<<x, y>> : y \in DOMAIN ALIGNMENT_MATRIX[x]} :
              x \in DOMAIN ALIGNMENT_MATRIX}

\* mutant: row and column stored the wrong way round
CoordsAfter_transposed(hits) ==
    IF hits = {} THEN Arr(<<Num(0), Num(0)>>)
    ELSE Arr(<<Num(Least({h[2] : h \in hits}) - 1),
               Num(Least({h[1] : h \in hits}) - 1)>>)

\* coords after the scan: the last matching cell overwrites [ 0, 0 ]
CoordsAfter(hits) ==
    IF hits = {} THEN Arr(<<Num(0), Num(0)>>)
    ELSE Arr(<<Num(Least({h[1] : h \in hits}) - 1),
               Num(Least({h[2] : h \in hits}) - 1)>>)

getCoordsFromIndex(index) ==
    CoordsAfter({c \in MatrixCells :
        StrictEq(Num(ALIGNMENT_MATRIX[c[1]][c[2]]), DefaultTo(index, Num(0)))})

(***************************************************************************)
(* getIndexFromCoords (lines 184-191)                                      *)
(***************************************************************************)
\* element i (0-based) of an array destructuring
ElementAt(a, i) == IF i + 1 \in DOMAIN a THEN a[i + 1] ELSE Undef

MatrixAt(x, y, fallback) ==
    IF /\ x.t = "number"
       /\ x.n + 1 \in DOMAIN ALIGNMENT_MATRIX
       /\ y.t = "number"
       /\ y.n + 1 \in DOMAIN ALIGNMENT_MATRIX[x.n + 1]
    THEN Num(ALIGNMENT_MATRIX[x.n + 1][y.n + 1])
    ELSE fallback

getIndexFromCoords(coords, fallback) ==
    IF coords.t # "array" THEN Throw   \* undefined is not iterable
    ELSE MatrixAt(ElementAt(coords.a, 0), ElementAt(coords.a, 1),
                  DefaultTo(fallback, Num(0)))

\* ! direction
Falsy(x) ==
    \/ x.t \in {"undefined", "null"}
    \/ x.t = "string" /\ x.s = <<>>
    \/ x.t = "number" /\ x.n = 0

(***************************************************************************)
(* getNextIndexFromDirection (lines 201-226)                               *)
(***************************************************************************)
\* lines 205-223: [ moveX, moveY ] from [ x, y ]
Move(x, y, direction) ==
    Arr(<< Num(IF StrictEq(direction, DIRECTION.UP) THEN x - 1
               ELSE IF StrictEq(direction, DIRECTION.DOWN) THEN x + 1
               ELSE x),
           Num(IF StrictEq(direction, DIRECTION.LEFT) THEN y - 1
               ELSE IF StrictEq(direction, DIRECTION.RIGHT) THEN y + 1
               ELSE y) >>)

MoveFrom(coords, direction) == Move(coords.a[1].n, coords.a[2].n, direction)

\* mutant: the fallback argument left out of the call at line 225
getNextIndexFromDirection_noFallback(currentIndex, direction) ==
    IF Falsy(direction) THEN currentIndex
    ELSE getIndexFromCoords(
             MoveFrom(getCoordsFromIndex(currentIndex), direction),
             Undef)

getNextIndexFromDirection(currentIndex, direction) ==
    IF Falsy(direction) THEN currentIndex
    ELSE getIndexFromCoords(
             MoveFrom(getCoordsFromIndex(currentIndex), direction),
             currentIndex)

(***************************************************************************)
(* mapAlignmentToGrid (lines 228-246); the parameters are the properties   *)
(* alignment and id of the argument object                                 *)
(***************************************************************************)
\* lines 233-235
OpenRow(grid, index) ==
    IF index % ALIGNMENT_GRID_SIZE = 0 THEN Append(grid, Arr(<<>>)) ELSE grid

\* lines 236-242
PushCell(grid, cell) ==
    [grid EXCEPT ![Len(grid)] = Arr(Append(grid[Len(grid)].a, cell))]

\* mutant: the id built from the position within the row
CellId_inRow(id, index) ==
    Str(TemplateString(id) \o <<"-">>
        \o TemplateString(Num(index % ALIGNMENT_GRID_SIZE)))

\* line 241: `${ id }-${ index }`
CellId(id, index) ==
    Str(TemplateString(id) \o <<"-">> \o TemplateString(Num(index)))

\* the grid after the forEach callback ran on the first n elements
RECURSIVE GridAfter(_, _, _)
GridAfter(alignment, id, n) ==
    IF n = 0 THEN <<>>
    ELSE PushCell(OpenRow(GridAfter(alignment, id, n - 1), n - 1),
                  Cell(alignment[n], Num(n - 1), CellId(id, n - 1)))

GridOf(alignment, id) ==
    IF alignment.t # "array" THEN Throw  \* alignment.forEach is not a function
    ELSE Arr(GridAfter(alignment.a, id, Len(alignment.a)))

mapAlignmentToGrid(alignment, id, A) == GridOf(DefaultTo(alignment, Arr(A)), id)

(***************************************************************************)
(* getAlignIndexFromGrid (lines 248-260)                                   *)
(***************************************************************************)
RECURSIVE Flatten(_)
Flatten(rows) ==
    IF rows = <<>> THEN <<>> ELSE Head(rows).a \o Flatten(Tail(rows))

\* flatGrid.find( ( item ) => item.id === id ), then cell ? cell.index : undefined
IndexOfCell(flatGrid, hits) ==
    IF hits = {} THEN Undef ELSE flatGrid[Least(hits)].index

CellIndex(flatGrid, id) ==
    IndexOfCell(flatGrid, {k \in DOMAIN flatGrid : StrictEq(flatGrid[k].id, id)})

getAlignIndexFromGrid(grid, id) ==
    IF grid.t # "array" \/ \E r \in DOMAIN grid.a : grid.a[r].t # "array"
    THEN Throw                          \* forEach is not a function
    ELSE CellIndex(Flatten(grid.a), id)

(***************************************************************************)
(* Inputs of the calls                                                     *)
(***************************************************************************)
MaxTokens == 3

MaxCells == 4

MaxIndex == 9

MaxCoord == 3

Middle == <<"M","i","d","d","l","e">>

diagonal == <<"d","i","a","g","o","n","a","l">>

TokenPool == {top, left, center, Middle}

TokenLists == UNION {[1..k -> TokenPool] : k \in 0..MaxTokens}

ExampleStrings ==
    {join(<<BASE_ALIGNMENTS[i].a[1].s, BASE_ALIGNMENTS[i].a[2].s>>, <<" ">>) :
        i \in DOMAIN BASE_ALIGNMENTS}
    \cup {join(<<diagonal, up>>, <<" ">>),
          <<"a"," ","b"," ","c">>,
          <<"t","o","p","-","l","e","f","t"," ","x">>,
          <<"B","o","t","t","o","m","-","R","I","G","H","T">>,
          <<>>}

\* strings, lists of string tokens, other values, and the omitted argument
Descriptors ==
    {Arr([i \in DOMAIN l |-> Str(l[i])]) : l \in TokenLists}
    \cup {Str(join(l, sep)) : l \in TokenLists \ {<<>>}, sep \in {<<" ">>, <<"-">>}}
    \cup {Str(s) : s \in ExampleStrings}
    \cup {Undef, Null, Num(5)}

\* tokens as line 63 hands them to transformAlignmentRTL (lower case)
RTLTokens ==
    {top, left, right, center, bottom, up, <<>>,
     left \o right, right \o left, left \o left, right \o right,
     up \o right, left \o <<"o","v","e","r">>, toLowerCase(token)}

Indices == {Num(i) : i \in -1..MaxIndex} \cup {Undef}

Coords ==
    {Arr(<<Num(x), Num(y)>>) : x \in -1..MaxCoord, y \in -1..MaxCoord}
    \cup {Arr(<<>>), Arr(<<Num(1)>>)}

Fallbacks == {Undef, Num(4), Num(7)}

Directions ==
    {DIRECTION.UP, DIRECTION.DOWN, DIRECTION.LEFT, DIRECTION.RIGHT,
     Undef, Null, Str(<<>>), Str(diagonal), Str(<<"U","P">>)}

PairPool == {BASE_ALIGNMENTS[1], BASE_ALIGNMENTS[5]}

AlignmentLists ==
    {Arr(l) : l \in UNION {[1..k -> PairPool] : k \in 0..MaxCells}} \cup {Undef}

IdPrefixes == {Str(<<"p">>), Str(<<"q","-","1">>)}

CellIds ==
    {Str(TemplateString(p) \o <<"-">> \o TemplateString(Num(k))) :
        p \in IdPrefixes, k \in 0..(MaxCells + 1)}
    \cup {Str(<<"p">>), Undef}

(***************************************************************************)
(* State machine: one action per function.  op, args and ret record the    *)
(* last call and src the call whose result was passed on as its argument.  *)
(* A caller starts from no pending result (Idle), makes a call, may pass   *)
(* the result on to a further call, and drops it (Discard).                *)
(***************************************************************************)
NoSrc == [op |-> "none", args |-> <<>>]

Idle == op \in {"load", "setRTL", "discard"}

Init ==
    /\ isRTL \in BOOLEAN
    /\ loadRTL = isRTL
    /\ ALIGNMENTS = LoadALIGNMENTS(isRTL)
    /\ op = "load"
    /\ args = <<>>
    /\ ret = Undef
    /\ src = NoSrc

Call(o, a, r, s) ==
    /\ op' = o
    /\ args' = a
    /\ ret' = r
    /\ src' = s
    /\ UNCHANGED <<isRTL, loadRTL, ALIGNMENTS>>

\* the embedding page changes its direction between two calls
SetRTL ==
    /\ isRTL' = ~isRTL
    /\ op' = "setRTL"
    /\ args' = <<>>
    /\ ret' = Undef
    /\ src' = NoSrc
    /\ UNCHANGED <<loadRTL, ALIGNMENTS>>

Discard ==
    /\ ~Idle
    /\ Call("discard", <<>>, Undef, NoSrc)

TransformAlignment ==
    \/ \E alignments \in Descriptors :
          Idle /\
          Call("transformAlignment", <<alignments>>,
               transformAlignment(alignments, isRTL), NoSrc)
    \/ /\ op = "transformAlignment"
       /\ ret.t = "array"
       /\ Call("transformAlignment", <<ret>>,
               transformAlignment(ret, isRTL), [op |-> op, args |-> args])

TransformAlignmentRTL ==
    \E value \in RTLTokens :
        Idle /\
        Call("transformAlignmentRTL", <<Str(value)>>,
             Str(transformAlignmentRTL(value, isRTL)), NoSrc)

IsAlignmentValid ==
    \E alignment \in Descriptors :
        Idle /\
        Call("isAlignmentValid", <<alignment>>,
             isAlignmentValid(alignment, ALIGNMENTS, isRTL), NoSrc)

GetAlignmentValues ==
    \E alignment \in Descriptors :
        Idle /\
        Call("getAlignmentValues", <<alignment>>,
             getAlignmentValues(alignment, ALIGNMENTS, isRTL), NoSrc)

GetAlignmentIndex ==
    \/ \E alignment \in Descriptors :
          Idle /\
          Call("getAlignmentIndex", <<alignment>>,
               getAlignmentIndex(alignment, ALIGNMENTS, isRTL), NoSrc)
    \/ /\ op = "getAlignmentValueFromIndex"
       /\ Call("getAlignmentIndex", <<ret>>,
               getAlignmentIndex(ret, ALIGNMENTS, isRTL),
               [op |-> op, args |-> args])

GetAlignmentValueFromIndex ==
    \E index \in Indices :
        Idle /\
        Call("getAlignmentValueFromIndex", <<index>>,
             getAlignmentValueFromIndex(index, ALIGNMENTS), NoSrc)

GetCoordsFromIndex ==
    \E index \in Indices :
        Idle /\
        Call("getCoordsFromIndex", <<index>>, getCoordsFromIndex(index), NoSrc)

GetIndexFromCoords ==
    \E coords \in Coords, fallback \in Fallbacks :
        Idle /\
        Call("getIndexFromCoords", <<coords, fallback>>,
             getIndexFromCoords(coords, fallback), NoSrc)

GetNextIndexFromDirection ==
    \E direction \in Directions :
        \/ \E currentIndex \in Indices :
              Idle /\
              Call("getNextIndexFromDirection", <<currentIndex, direction>>,
                   getNextIndexFromDirection(currentIndex, direction), NoSrc)
        \/ /\ op = "getNextIndexFromDirection"
           /\ Call("getNextIndexFromDirection", <<ret, direction>>,
                   getNextIndexFromDirection(ret, direction),
                   [op |-> op, args |-> args])

MapAlignmentToGrid ==
    \E alignment \in AlignmentLists, id \in IdPrefixes :
        Idle /\
        Call("mapAlignmentToGrid", <<alignment, id>>,
             mapAlignmentToGrid(alignment, id, ALIGNMENTS), NoSrc)

GetAlignIndexFromGrid ==
    /\ op = "mapAlignmentToGrid"
    /\ \E id \in CellIds :
          Call("getAlignIndexFromGrid", <<ret, id>>,
               getAlignIndexFromGrid(ret, id), [op |-> op, args |-> args])

Next ==
    \/ SetRTL
    \/ Discard
    \/ TransformAlignment
    \/ TransformAlignmentRTL
    \/ IsAlignmentValid
    \/ GetAlignmentValues
    \/ GetAlignmentIndex
    \/ GetAlignmentValueFromIndex
    \/ GetCoordsFromIndex
    \/ GetIndexFromCoords
    \/ GetNextIndexFromDirection
    \/ MapAlignmentToGrid
    \/ GetAlignIndexFromGrid

Spec == Init /\ [][Next]_vars

(***************************************************************************)
(* Properties                                                              *)
(***************************************************************************)
IsNumberIn(x, S) == x.t = "number" /\ x.n \in S

IsDirection(x) == x.t = "string" /\ x.s \in {up, down, left, right}

MatrixIndices == 0..8

\* 'top left' ... 'bottom right', and the strings of ALIGNMENT_VALUES
CanonicalStrings ==
    Range(ALIGNMENT_VALUES(BASE_ALIGNMENTS)) \cup Range(ALIGNMENT_VALUES(ALIGNMENTS))

\* C1: with the flag unchanged since ALIGNMENTS was built,
\* getAlignmentIndex(getAlignmentValueFromIndex(i)) = i for every i in 0..8.
RoundTripIndexValue ==
    ( /\ op = "getAlignmentIndex"
      /\ src.op = "getAlignmentValueFromIndex"
      /\ IsNumberIn(src.args[1], MatrixIndices)
      /\ isRTL = loadRTL )
    => ret = src.args[1]

\* the row and column one step away from (r, c)
StepRow(r, d) == IF d = up THEN r - 1 ELSE IF d = down THEN r + 1 ELSE r

StepCol(c, d) == IF d = left THEN c - 1 ELSE IF d = right THEN c + 1 ELSE c

\* C2: from index i at row i div 3 and column i mod 3, a step in direction d
\* returns the index of the neighbouring cell if it lies in the 3x3 matrix
\* and i itself otherwise; it never wraps.
DirectionalMoveClamps ==
    ( /\ op = "getNextIndexFromDirection"
      /\ IsNumberIn(args[1], MatrixIndices)
      /\ IsDirection(args[2]) )
    => LET i == args[1].n
           r == StepRow(i \div 3, args[2].s)
           c == StepCol(i % 3, args[2].s)
       IN ret = IF r \in 0..2 /\ c \in 0..2 THEN Num(3 * r + c) ELSE Num(i)

DirectionalMoveClampsWitness ==
    /\ op = "getNextIndexFromDirection"
    /\ args = <<Num(2), DIRECTION.RIGHT>>
    /\ ret = Num(2)

\* C3: for a string or a list of tokens d, isAlignmentValid(d) is true
\* exactly if transformAlignment(d) equals one of the pairs of ALIGNMENTS;
\* getAlignmentValues(d) is then that pair and undefined otherwise, and
\* undefined whenever more than 2 tokens remain.
ValidIffCanonical ==
    /\ ( op = "isAlignmentValid" /\ args[1].t \in {"string", "array"} )
       => ret = Bool(transformAlignment(args[1], isRTL) \in Range(ALIGNMENTS))
    /\ ( op = "getAlignmentValues" /\ args[1].t \in {"string", "array"} )
       => /\ ret = IF transformAlignment(args[1], isRTL) \in Range(ALIGNMENTS)
                   THEN transformAlignment(args[1], isRTL)
                   ELSE Undef
          /\ Len(transformAlignment(args[1], isRTL).a) > 2 => ret = Undef

ValidIffCanonicalWitness ==
    /\ op = "isAlignmentValid"
    /\ args[1] = Str(<<"B","o","t","t","o","m","-","R","I","G","H","T">>)
    /\ ret = Bool(TRUE)

\* C4: no call raises, and a call whose input matches nothing returns
\* undefined, the empty string or the fallback it was given.
TotalWithSentinels ==
    /\ ~IsThrow(ret)
    /\ ( /\ op \in {"getAlignmentValues", "getAlignmentIndex"}
         /\ transformAlignment(DefaultTo(args[1], Str(center)), isRTL)
                \notin Range(ALIGNMENTS) )
       => ret = Undef
    /\ ( /\ op = "getAlignmentValueFromIndex"
         /\ ~IsNumberIn(DefaultTo(args[1], Num(0)), MatrixIndices) )
       => ret = Str(<<>>)
    /\ ( /\ op = "getCoordsFromIndex"
         /\ ~IsNumberIn(DefaultTo(args[1], Num(0)), MatrixIndices) )
       => ret \in {Undef, Str(<<>>)}
    /\ ( /\ op = "getIndexFromCoords"
         /\ ~( /\ Len(args[1].a) >= 2
               /\ IsNumberIn(args[1].a[1], 0..2)
               /\ IsNumberIn(args[1].a[2], 0..2) ) )
       => ret = DefaultTo(args[2], Num(0))
    /\ ( /\ op = "getAlignIndexFromGrid"
         /\ \A r \in DOMAIN args[1].a : \A k \in DOMAIN args[1].a[r].a :
                args[1].a[r].a[k].id # args[2] )
       => ret = Undef

\* C5: for a canonical string x and either value of the flag,
\* transformAlignment(transformAlignment(x)) = transformAlignment(x).
NormaliseIdempotent ==
    ( /\ op = "transformAlignment"
      /\ src.op = "transformAlignment"
      /\ src.args[1] \in CanonicalStrings )
    => ret = args[1]

\* C6 as the specification states it: with the flag on 'left' becomes
\* 'right', 'right' becomes 'left' and every other token is returned
\* unchanged; with the flag off every token is returned unchanged; so
\* 'top left' normalises to the pair top/right with the flag on and to
\* top/left with it off.
RTLSwapsOnlyLeftRight ==
    /\ op = "transformAlignmentRTL"
       => ret = IF isRTL /\ args[1] = Str(left) THEN Str(right)
                ELSE IF isRTL /\ args[1] = Str(right) THEN Str(left)
                ELSE args[1]
    /\ ( op = "transformAlignment"
         /\ args[1] = Str(<<"t","o","p"," ","l","e","f","t">>) )
       => ret = IF isRTL THEN Arr(<<Str(right), Str(top)>>)
                ELSE Arr(<<Str(left), Str(top)>>)

\* C6 amended: as above, but only a token that contains neither 'left' nor
\* 'right' is sure to be returned unchanged with the flag on ('leftover'
\* becomes 'rightover').
RTLSwapsLeftRightTokens ==
    /\ ( op = "transformAlignmentRTL" /\ ~isRTL ) => ret = args[1]
    /\ ( op = "transformAlignmentRTL" /\ isRTL )
       => /\ args[1] = Str(left) => ret = Str(right)
          /\ args[1] = Str(right) => ret = Str(left)
          /\ ( /\ Occurrences(args[1].s, left) = {}
               /\ Occurrences(args[1].s, right) = {} )
             => ret = args[1]
          /\ args[1] = Str(left \o <<"o","v","e","r">>)
             => ret = Str(right \o <<"o","v","e","r">>)
    /\ ( op = "transformAlignment"
         /\ args[1] = Str(<<"t","o","p"," ","l","e","f","t">>) )
       => ret = IF isRTL THEN Arr(<<Str(right), Str(top)>>)
                ELSE Arr(<<Str(left), Str(top)>>)

RTLSwapsLeftRightTokensWitness ==
    /\ op = "transformAlignmentRTL"
    /\ isRTL
    /\ args[1] = Str(left)
    /\ ret = Str(right)

\* C7: mapAlignmentToGrid lays the n elements out in their order in rows of
\* 3 cells, the last row holding the rest; the cell of position k carries
\* index k and id 'p-k'; getAlignIndexFromGrid on that grid returns k for
\* the id 'p-k' and undefined for an id no cell carries.
GridMappingInverse ==
    /\ op = "mapAlignmentToGrid"
       => LET alignment == DefaultTo(args[1], Arr(ALIGNMENTS)).a
              n == Len(alignment)
              grid == ret.a
          IN /\ Len(grid) = (n + 2) \div 3
             /\ \A r \in DOMAIN grid :
                    Len(grid[r].a) = IF r < Len(grid) THEN 3
                                     ELSE n - 3 * (Len(grid) - 1)
             /\ \A k \in 0..(n - 1) :
                    grid[(k \div 3) + 1].a[(k % 3) + 1] =
                        Cell(alignment[k + 1], Num(k),
                             Str(args[2].s \o <<"-">> \o DecimalDigits(k)))
    /\ ( op = "getAlignIndexFromGrid" /\ src.op = "mapAlignmentToGrid" )
       => LET n == Len(DefaultTo(src.args[1], Arr(ALIGNMENTS)).a)
              ids == [k \in 0..(n - 1) |->
                         Str(src.args[2].s \o <<"-">> \o DecimalDigits(k))]
          IN /\ \A k \in 0..(n - 1) : args[2] = ids[k] => ret = Num(k)
             /\ (\A k \in 0..(n - 1) : args[2] # ids[k]) => ret = Undef

GridMappingInverseWitness ==
    /\ op = "getAlignIndexFromGrid"
    /\ src.args = <<Undef, Str(<<"p">>)>>
    /\ args[2] = Str(<<"p","-","5">>)
    /\ ret = Num(5)

\* C8: with a direction that is absent or is none of up, down, left and
\* right, getNextIndexFromDirection returns currentIndex, whether or not
\* currentIndex is an index of the matrix.
NoDirectionIsNoOp ==
    ( /\ op = "getNextIndexFromDirection"
      /\ args[1].t = "number"
      /\ ~IsDirection(args[2]) )
    => ret = args[1]

\* C9: a copy of the module whose flag stays as it was when ALIGNMENTS was
\* built returns the same getAlignmentIndex(d) as the copy with the other
\* stable flag; an index that differs from the one of the left-to-right
\* copy is returned only when the flag at the call differs from the flag
\* ALIGNMENTS was built under.
IndexIndependentOfStableRTL ==
    /\ ( op = "getAlignmentIndex" /\ isRTL = loadRTL )
       => ret = getAlignmentIndex(args[1], LoadALIGNMENTS(~loadRTL), ~loadRTL)
    /\ ( /\ op = "getAlignmentIndex"
         /\ ret # getAlignmentIndex(args[1], LoadALIGNMENTS(FALSE), FALSE) )
       => isRTL # loadRTL

IndexIndependentOfStableRTLWitness ==
    /\ op = "getAlignmentIndex"
    /\ isRTL
    /\ loadRTL
    /\ args[1] = Str(<<"t","o","p"," ","l","e","f","t">>)
    /\ ret = Num(0)

Opposite(d) ==
    IF d = up THEN down ELSE IF d = down THEN up
    ELSE IF d = left THEN right ELSE left

\* C10: a step from an index in 0..8 in one of the four directions ends on
\* an index in 0..8, and when a step changed the index, the step in the
\* opposite direction from the new index returns the old one.
NavigationClosedReversible ==
    /\ ( /\ op = "getNextIndexFromDirection"
         /\ IsNumberIn(args[1], MatrixIndices)
         /\ IsDirection(args[2]) )
       => IsNumberIn(ret, MatrixIndices)
    /\ ( /\ op = "getNextIndexFromDirection"
         /\ src.op = "getNextIndexFromDirection"
         /\ IsNumberIn(src.args[1], MatrixIndices)
         /\ IsDirection(src.args[2])
         /\ args[1] # src.args[1]
         /\ args[2] = Str(Opposite(src.args[2].s)) )
       => ret = src.args[1]

NavigationClosedReversibleWitness ==
    /\ op = "getNextIndexFromDirection"
    /\ src.op = "getNextIndexFromDirection"
    /\ src.args = <<Num(4), DIRECTION.LEFT>>
    /\ args = <<Num(3), DIRECTION.RIGHT>>
    /\ ret = Num(4)

=============================================================================
